---- MODULE Spec2Model ----
(***************************************************************************)
(* Model of the LinuxTutor quiz subsystem (quiz_system.py) and of the      *)
(* lesson runner that calls it (lessons.py run_lesson, linuxtutor.py).     *)
(*                                                                         *)
(* A line of text is a sequence of one-character strings, so that strip()  *)
(* and lower() are computed and not assumed.  One action is the code that  *)
(* runs between two calls of input(): the program only ever stops at a     *)
(* prompt.                                                                 *)
(***************************************************************************)
EXTENDS Integers, Sequences, FiniteSets, TLC

(***************************************************************************)
(* Bounds of the model.                                                    *)
(***************************************************************************)
\* longest quiz_data list handed to Quiz()
MaxQuestions == 2
\* most affirmative retries taken in one run of QuizRunner.run
MaxRetries == 2
\* most calls of run_lesson in one behaviour
MaxRuns == 2
\* most whitespace characters on either side of a typed answer
MaxPad == 1
\* most calls of progress_mgr.increment_quiz_stats in one behaviour
MaxCalls == 3
\* largest attempts argument of such a call
MaxAttempts == 3
\* most entries of completed_lessons
MaxCompleted == 2

(***************************************************************************)
(* Text: str.strip(), str.lower(), str.isdigit(), int().                   *)
(***************************************************************************)
Whitespace == {" ", "\t"}

UpperLetters ==
  <<"A","B","C","D","E","F","G","H","I","J","K","L","M",
    "N","O","P","Q","R","S","T","U","V","W","X","Y","Z">>

LowerLetters ==
  <<"a","b","c","d","e","f","g","h","i","j","k","l","m",
    "n","o","p","q","r","s","t","u","v","w","x","y","z">>

Digits == <<"0","1","2","3","4","5","6","7","8","9">>

\* index of c in the sequence s, 0 when absent
IndexOf(s, c) ==
  IF \E k \in 1..Len(s) : s[k] = c
    THEN CHOOSE k \in 1..Len(s) : s[k] = c
    ELSE 0

LowerChar(c) ==
  IF IndexOf(UpperLetters, c) > 0 THEN LowerLetters[IndexOf(UpperLetters, c)] ELSE c

\* str.lower()
Lower(s) == [k \in 1..Len(s) |-> LowerChar(s[k])]

RECURSIVE LStrip(_)
LStrip(s) ==
  IF s # <<>> /\ Head(s) \in Whitespace THEN LStrip(Tail(s)) ELSE s

RECURSIVE RStrip(_)
RStrip(s) ==
  IF s # <<>> /\ s[Len(s)] \in Whitespace
    THEN RStrip(SubSeq(s, 1, Len(s) - 1))
    ELSE s

\* str.strip()
Strip(s) == RStrip(LStrip(s))

\* characters str.isdigit() accepts and int() rejects (superscript digits);
\* "^2" is the one character SUPERSCRIPT TWO, U+00B2
SuperscriptDigits == {"^2"}

\* str.isdigit()
IsDigit(s) ==
  /\ s # <<>>
  /\ \A k \in 1..Len(s) : IndexOf(Digits, s[k]) > 0 \/ s[k] \in SuperscriptDigits

\* int(s) raises ValueError: s is not a string of decimal digits
IntRaises(s) == s = <<>> \/ \E k \in 1..Len(s) : IndexOf(Digits, s[k]) = 0

\* int() of a string of decimal digits
RECURSIVE ParseInt(_)
ParseInt(s) ==
  IF s = <<>> THEN 0
  ELSE 10 * ParseInt(SubSeq(s, 1, Len(s) - 1)) + (IndexOf(Digits, s[Len(s)]) - 1)

(***************************************************************************)
(* Question records (the dictionaries of a lesson's 'quiz' list).  A       *)
(* record is a function from its keys, so a missing key is a key outside   *)
(* DOMAIN.                                                                 *)
(***************************************************************************)
HasKey(data, k) == k \in DOMAIN data

\* AFFIRMATIVE_RESPONSES of constants.py
AFFIRMATIVE_RESPONSES == { <<>>, <<"y">>, <<"y","e","s">> }

\* the keys of Quiz.QUESTION_TYPES
QUESTION_TYPES == {"multiple_choice", "true_false", "command_recall", "fill_blank"}

TextTypes == {"command_recall", "fill_blank"}

\* QuizQuestion.__init__ and the __init__ of the subclass chosen by the
\* record's type: TRUE when the constructor raises ValueError
QuestionInitRaises(data) ==
  \/ ~HasKey(data, "question")
  \/ ~HasKey(data, "explanation")
  \/ /\ data["type"] = "multiple_choice"
     /\ (~HasKey(data, "options") \/ ~HasKey(data, "correct"))
  \/ /\ data["type"] = "true_false"
     /\ ~HasKey(data, "answer")
  \/ /\ data["type"] \in TextTypes
     /\ ~HasKey(data, "answer")

QuestionInit_AnswerAsAlternative(data) ==
  CASE data["type"] = "multiple_choice" ->
         [kind |-> "multiple_choice",
          question_text |-> data["question"],
          explanation |-> data["explanation"],
          options |-> data["options"],
          correct_index |-> data["correct"]]
    [] data["type"] = "true_false" ->
         [kind |-> "true_false",
          question_text |-> data["question"],
          explanation |-> data["explanation"],
          correct_answer |-> data["answer"]]
    [] OTHER ->
         [kind |-> data["type"],
          question_text |-> data["question"],
          explanation |-> data["explanation"],
          correct_answer |-> data["answer"],
          alternatives |-> IF HasKey(data, "alternatives")
                             THEN data["alternatives"]
                             ELSE <<data["answer"]>>]

\* the constructed question object: its attributes
QuestionInit(data) ==
  CASE data["type"] = "multiple_choice" ->
         [kind |-> "multiple_choice",
          question_text |-> data["question"],
          explanation |-> data["explanation"],
          options |-> data["options"],
          correct_index |-> data["correct"]]
    [] data["type"] = "true_false" ->
         [kind |-> "true_false",
          question_text |-> data["question"],
          explanation |-> data["explanation"],
          correct_answer |-> data["answer"]]
    [] OTHER ->
         [kind |-> data["type"],
          question_text |-> data["question"],
          explanation |-> data["explanation"],
          correct_answer |-> data["answer"],
          alternatives |-> IF HasKey(data, "alternatives")
                             THEN data["alternatives"] ELSE <<>>]

\* Quiz.__init__ raises ValueError on the first record it cannot build
QuizInitRaises(quiz_data) ==
  \E k \in 1..Len(quiz_data) :
    \/ ~HasKey(quiz_data[k], "type")
    \/ quiz_data[k]["type"] \notin QUESTION_TYPES
    \/ QuestionInitRaises(quiz_data[k])

QuizInit_SkipFirst(quiz_data) ==
  [k \in 1..(Len(quiz_data) - 1) |-> QuestionInit(quiz_data[k + 1])]

\* Quiz.__init__: self.questions, one question per record, in order
QuizInit(quiz_data) == [k \in 1..Len(quiz_data) |-> QuestionInit(quiz_data[k])]

\* MultipleChoiceQuestion.validate_answer
MultipleChoiceValidate(q, user_input) ==
  LET s == Lower(Strip(user_input)) IN
    IF s \in { <<"a">>, <<"b">>, <<"c">>, <<"d">> }
      THEN LET letter_index == IndexOf(LowerLetters, s[1]) - 1 IN
             IF letter_index >= Len(q.options) THEN FALSE
             ELSE letter_index = q.correct_index
    ELSE IF IsDigit(s)
      THEN LET idx == ParseInt(s) IN
             IF idx >= Len(q.options) THEN FALSE
             ELSE idx = q.correct_index
    ELSE FALSE

\* MultipleChoiceQuestion.validate_answer raises ValueError: int(user_input)
\* of a string isdigit() accepted
MultipleChoiceRaises(q, user_input) ==
  LET s == Lower(Strip(user_input)) IN
    /\ s \notin { <<"a">>, <<"b">>, <<"c">>, <<"d">> }
    /\ IsDigit(s)
    /\ IntRaises(s)

true_inputs_NoYes ==
  { <<"t","r","u","e">>, <<"t">>, <<"y">>, <<"1">> }

\* true_inputs = ['true', 't', 'yes', 'y', '1']
true_inputs ==
  { <<"t","r","u","e">>, <<"t">>, <<"y","e","s">>, <<"y">>, <<"1">> }

\* false_inputs = ['false', 'f', 'no', 'n', '0']
false_inputs ==
  { <<"f","a","l","s","e">>, <<"f">>, <<"n","o">>, <<"n">>, <<"0">> }

\* TrueFalseQuestion.validate_answer
TrueFalseValidate(q, user_input) ==
  LET s == Lower(Strip(user_input)) IN
    IF s \in true_inputs THEN q.correct_answer = TRUE
    ELSE IF s \in false_inputs THEN q.correct_answer = FALSE
    ELSE FALSE

TextAnswerValidate_CaseFold(q, user_input) ==
  LET s == Lower(Strip(user_input)) IN
    IF s = Lower(q.correct_answer) THEN TRUE
    ELSE IF \E k \in 1..Len(q.alternatives) : Lower(q.alternatives[k]) = s THEN TRUE
    ELSE FALSE

\* TextAnswerQuestion.validate_answer
TextAnswerValidate(q, user_input) ==
  LET s == Strip(user_input) IN
    IF s = q.correct_answer THEN TRUE
    ELSE IF \E k \in 1..Len(q.alternatives) : q.alternatives[k] = s THEN TRUE
    ELSE FALSE

\* question.validate_answer(user_input), dispatched on the question's class
validate_answer(q, user_input) ==
  CASE q.kind = "multiple_choice" -> MultipleChoiceValidate(q, user_input)
    [] q.kind = "true_false" -> TrueFalseValidate(q, user_input)
    [] OTHER -> TextAnswerValidate(q, user_input)

\* question.validate_answer(user_input) raises
validate_raises(q, user_input) ==
  q.kind = "multiple_choice" /\ MultipleChoiceRaises(q, user_input)

(***************************************************************************)
(* Lessons, quiz data and typed lines the behaviours are drawn from.       *)
(***************************************************************************)
\* the lessons of LESSONS the model runs; "None" stands for a lesson
\* dictionary that is not an entry of LESSONS (run_lesson then finds no
\* lesson_id)
LessonArgs == {"intro-to-terminal", "file-permissions", "None"}

\* len([s for s in lesson['content'] if s['type'] == 'exercise'])
ExerciseCount(lid) ==
  CASE lid = "intro-to-terminal" -> 1
    [] lid = "file-permissions" -> 3
    [] OTHER -> 1

FourOptions == <<"option A", "option B", "option C", "option D">>

\* the first records of LESSONS['intro-to-terminal']['quiz']
IntroQuiz ==
  << [type |-> "multiple_choice", question |-> "What does the terminal allow you to do?",
      options |-> FourOptions, correct |-> 0, explanation |-> "text-based interface"],
     [type |-> "command_recall", question |-> "Which command displays your current username?",
      answer |-> <<"w","h","o","a","m","i">>, explanation |-> "whoami shows it"],
     [type |-> "command_recall", question |-> "Which command shows your current directory location?",
      answer |-> <<"p","w","d">>, explanation |-> "Print Working Directory"],
     [type |-> "true_false", question |-> "The terminal can only be used by experts.",
      answer |-> FALSE, explanation |-> "anyone can learn"] >>

\* the first records of LESSONS['file-permissions']['quiz']
PermissionsQuiz ==
  << [type |-> "multiple_choice", question |-> "How many permission categories exist in Linux?",
      options |-> FourOptions, correct |-> 0, explanation |-> "owner, group, others"],
     [type |-> "multiple_choice", question |-> "What are the three basic permission types?",
      options |-> FourOptions, correct |-> 0, explanation |-> "read, write, execute"],
     [type |-> "fill_blank", question |-> "The _____ command changes file permissions.",
      answer |-> <<"c","h","m","o","d">>, explanation |-> "chmod (change mode)"],
     [type |-> "multiple_choice", question |-> "What does chmod 755 file mean?",
      options |-> FourOptions, correct |-> 0, explanation |-> "755 = rwxr-xr-x"] >>

Min(a, b) == IF a < b THEN a ELSE b

Prefix(s, n) == SubSeq(s, 1, Min(n, Len(s)))

\* records of the test suite (tests/test_quiz_system.py)
McRecord ==
  [type |-> "multiple_choice", question |-> "What is pwd?",
   options |-> <<"Print Working Directory", "Other", "Wrong", "Nope">>,
   correct |-> 0, explanation |-> "pwd is Print Working Directory"]

TfRecord ==
  [type |-> "true_false", question |-> "/home has configs?",
   answer |-> FALSE, explanation |-> "Explanation 2"]

BadRecord ==
  [type |-> "unknown_type", question |-> "test?", explanation |-> "test"]

RecordPool == {McRecord, TfRecord, IntroQuiz[3], BadRecord}

\* every quiz_data list of at most MaxQuestions records of the pool
QuizDataSet == UNION { [1..n -> RecordPool] : n \in 0..MaxQuestions }

\* the record LESSONS['basic-navigation'] gives alternatives in
AltRecord ==
  [type |-> "command_recall", question |-> "What command lists files and directories?",
   answer |-> <<"l","s">>,
   alternatives |-> << <<"l","s"," ","-","l">>, <<"l","s"," ","-","l","a">> >>,
   explanation |-> "ls lists directory contents"]

\* a dictionary without one of its keys
Without(data, key) == [k \in (DOMAIN data) \ {key} |-> data[k]]

\* multiple_choice records whose 'correct' is no index of 'options'
OutOfRangeRecords ==
  { [type |-> "multiple_choice", question |-> "test?", options |-> <<"A", "B">>,
     correct |-> c, explanation |-> "test"] : c \in {-1, 2, 5} }

WellFormedRecords == {McRecord, TfRecord, IntroQuiz[3], PermissionsQuiz[3], AltRecord}

\* the records Quiz() is called with directly: well-formed ones, each of them
\* with one key left out, an unknown type and out-of-range 'correct' values
ConstructPool ==
  WellFormedRecords
    \cup { Without(r, key) : r \in WellFormedRecords,
                            key \in {"type", "question", "explanation", "options",
                                     "correct", "answer", "alternatives"} }
    \cup {BadRecord}
    \cup OutOfRangeRecords

ConstructDataSet == UNION { [1..n -> ConstructPool] : n \in 0..MaxQuestions }

\* the records validate_answer is tried on: multiple_choice with 2 to 4
\* options and every 'correct' (and the out-of-range ones Quiz() accepts),
\* true_false with both answers, and text records under both text types
ValidateRecords ==
  { [type |-> "multiple_choice", question |-> "What is pwd?",
     options |-> Prefix(FourOptions, n), correct |-> c,
     explanation |-> "pwd is Print Working Directory"] : n \in 2..4, c \in 0..3 }
    \cup OutOfRangeRecords
    \cup { [TfRecord EXCEPT !["answer"] = b] : b \in BOOLEAN }
    \cup { [r EXCEPT !["type"] = t] :
             r \in {IntroQuiz[3], AltRecord, Without(AltRecord, "alternatives")},
             t \in TextTypes }

UpperChar(c) ==
  IF IndexOf(LowerLetters, c) > 0 THEN UpperLetters[IndexOf(LowerLetters, c)] ELSE c

\* str.upper() and str.capitalize(), to type a word in other cases
Upper(s) == [k \in 1..Len(s) |-> UpperChar(s[k])]

Capitalize(s) == [k \in 1..Len(s) |-> IF k = 1 THEN UpperChar(s[k]) ELSE s[k]]

\* the answers typed, before case and padding
Words ==
  { <<>>, <<"a">>, <<"b">>, <<"c">>, <<"d">>, <<"e">>,
    <<"0">>, <<"1">>, <<"2">>, <<"3">>, <<"4">>, <<"5">>, <<"0","3">>, <<"1","0">>,
    <<"^2">>, <<"1","^2">>,
    <<"t","r","u","e">>, <<"t">>, <<"y","e","s">>, <<"y">>,
    <<"f","a","l","s","e">>, <<"f">>, <<"n","o">>, <<"n">>, <<"m","a","y","b","e">>,
    <<"p","w","d">>, <<"l","s">>, <<"l","s"," ","-","l">>,
    <<"l","s"," ","-","l","a">>, <<"l","s"," ","-","a">> }

\* whitespace of at most n characters
Pads(n) == UNION { [1..k -> Whitespace] : k \in 0..n }

\* every word in lower, upper and capitalised form, padded on both sides
InputSet ==
  { before \o w \o after :
      w \in UNION { {x, Upper(x), Capitalize(x)} : x \in Words },
      before \in Pads(MaxPad), after \in Pads(MaxPad) }

\* lesson.get('quiz'): the quiz of a lesson of LESSONS, cut to MaxQuestions
\* records; a lesson that is not in LESSONS has no quiz, one question or a
\* record Quiz() rejects
LessonQuizData(lid) ==
  CASE lid = "intro-to-terminal" -> { Prefix(IntroQuiz, MaxQuestions) }
    [] lid = "file-permissions" -> { Prefix(PermissionsQuiz, MaxQuestions) }
    [] OTHER -> { <<>>, <<TfRecord>>, <<BadRecord>> }

\* lines a user types at a prompt
Lines ==
  { <<>>, <<"y">>, <<" ","Y","e","s"," ">>, <<"n">>, <<"m","a","y","b","e">>,
    <<"a">>, <<"A"," ">>, <<"b">>, <<"0">>, <<"7">>,
    <<"f">>, <<"t","r","u","e">>,
    <<"p","w","d">>, <<"\t","p","w","d"," ">>, <<"P","W","D">>,
    <<"w","h","o","a","m","i">>, <<"c","h","m","o","d">>, <<"^2">> }

(***************************************************************************)
(* Output lines.  Only the lines that carry a number or a verdict are      *)
(* kept; every line has the same four fields.                              *)
(***************************************************************************)
Line(m, x, y, p) == [msg |-> m, n |-> x, of |-> y, plural |-> p]

show_completion_AlwaysPlural(attempts, total) ==
  LET retries == attempts - total IN
    << Line("You answered all questions correctly", total, total, "") >> \o
    ( IF retries > 0
        THEN << Line("needed retries", retries, attempts, "s") >>
        ELSE << Line("Perfect score", 0, attempts, "") >> )

\* QuizRunner._show_completion
show_completion(attempts, total) ==
  LET retries == attempts - total IN
    << Line("You answered all questions correctly", total, total, "") >> \o
    ( IF retries > 0
        THEN << Line("needed retries", retries, attempts,
                     IF retries > 1 THEN "s" ELSE "") >>
        ELSE << Line("Perfect score", 0, attempts, "") >> )

(***************************************************************************)
(* Progress: LinuxTutor.progress and the progress file.                    *)
(***************************************************************************)
\* LinuxTutor.load_progress when there is no progress file
DefaultProgress ==
  [current_level |-> "beginner",
   completed_lessons |-> <<>>,
   current_lesson |-> "None",
   stats |-> [lessons_completed |-> 0, exercises_completed |-> 0],
   first_time |-> TRUE]

InSeq(s, x) == \E k \in 1..Len(s) : s[k] = x

\* the value of a statistic, 0 when the key is absent
Stat(p, k) == IF k \in DOMAIN p.stats THEN p.stats[k] ELSE 0

\* p with statistic k set to v (the key is created when absent)
WithStat(p, k, v) ==
  [p EXCEPT !.stats =
     [x \in (DOMAIN p.stats) \cup {k} |-> IF x = k THEN v ELSE p.stats[x]]]

complete_lesson_AlwaysAppend(p, lesson_name) ==
  [WithStat(p, "lessons_completed", Stat(p, "lessons_completed") + 1)
     EXCEPT !.completed_lessons = Append(@, lesson_name),
            !.current_lesson = "None"]

\* LinuxTutor.complete_lesson, without its save_progress
complete_lesson(p, lesson_name) ==
  LET p1 == IF ~InSeq(p.completed_lessons, lesson_name)
              THEN [WithStat(p, "lessons_completed", Stat(p, "lessons_completed") + 1)
                      EXCEPT !.completed_lessons = Append(@, lesson_name)]
              ELSE p
  IN [p1 EXCEPT !.current_lesson = "None"]

\* the old-style progress file of test_backward_compatibility_missing_quiz_stats
OldProgress ==
  [current_level |-> "beginner",
   completed_lessons |-> <<"intro-to-terminal">>,
   current_lesson |-> "None",
   stats |-> [lessons_completed |-> 1, exercises_completed |-> 5],
   first_time |-> FALSE]

\* the progress file a call may find on disk: <<>> is no file
ProgressFiles == { <<>>, <<OldProgress>> }

\* ProgressManager._create_default_progress
create_default_progress ==
  [first_time |-> TRUE,
   current_level |-> "beginner",
   current_lesson |-> "None",
   completed_lessons |-> <<>>,
   stats |-> [lessons_completed |-> 0, exercises_completed |-> 0]]

\* ProgressManager.load_progress: json.load of the file as it is, else the
\* default
pm_load_progress(file) == IF file # <<>> THEN file[1] ELSE create_default_progress

\* LinuxTutor.load_progress: json.load of the file, else the default
load_progress(file) == IF file # <<>> THEN file[1] ELSE DefaultProgress

\* tutor.progress['stats']['exercises_completed'] += count
add_exercises(p, count) ==
  WithStat(p, "exercises_completed", Stat(p, "exercises_completed") + count)

(***************************************************************************)
(* The lessons of LESSONS and the LinuxTutor operations that read them.    *)
(***************************************************************************)
\* the keys of LESSONS
LessonIds ==
  {"intro-to-terminal", "file-system-basics", "basic-commands",
   "process-management", "shell-scripting", "security-basics",
   "performance-tuning", "file-permissions", "text-editors"}

\* LESSONS[lid]['level']
LessonLevel(lid) ==
  CASE lid \in {"intro-to-terminal", "file-system-basics", "basic-commands",
                "file-permissions", "text-editors"} -> "beginner"
    [] lid = "process-management" -> "intermediate"
    [] lid \in {"shell-scripting", "security-basics"} -> "advanced"
    [] lid = "performance-tuning" -> "expert"

\* LESSONS[lid]['prerequisites']
Prerequisites(lid) ==
  CASE lid = "intro-to-terminal" -> <<>>
    [] lid = "file-system-basics" -> <<"intro-to-terminal">>
    [] lid = "basic-commands" -> <<"file-system-basics">>
    [] lid = "process-management" -> <<"basic-commands">>
    [] lid = "shell-scripting" -> <<"process-management", "text-processing">>
    [] lid = "security-basics" -> <<"file-permissions", "system-administration">>
    [] lid = "performance-tuning" -> <<"process-management", "system-administration">>
    [] lid = "file-permissions" -> <<"basic-commands">>
    [] lid = "text-editors" -> <<"basic-commands">>

\* valid_levels of set_level, level_progression of suggest_level_up
valid_levels == <<"beginner", "intermediate", "advanced", "expert">>

\* the dictionary 'lessons' of get_next_lesson, .get(level, [])
NextLessonLists(level) ==
  CASE level = "beginner" ->
         <<"intro-to-terminal", "file-system-basics", "basic-commands",
           "file-permissions", "text-editors">>
    [] level = "intermediate" ->
         <<"process-management", "text-processing", "file-operations",
           "networking-basics", "package-management">>
    [] level = "advanced" ->
         <<"shell-scripting", "system-administration", "log-analysis",
           "security-basics", "performance-monitoring">>
    [] level = "expert" ->
         <<"kernel-concepts", "advanced-networking", "performance-tuning",
           "security-hardening", "automation-deployment">>
    [] OTHER -> <<>>

\* LinuxTutor.get_next_lesson: the first lesson of the level's list that is
\* not in completed_lessons, "None" when there is none
get_next_lesson(p) ==
  LET level_lessons == NextLessonLists(p.current_level)
      open == { k \in 1..Len(level_lessons) :
                  ~InSeq(p.completed_lessons, level_lessons[k]) }
  IN IF open = {} THEN "None"
     ELSE level_lessons[CHOOSE k \in open : \A j \in open : k <= j]

\* missing = [p for p in prereqs if p not in completed_lessons]
missing_prerequisites(p, lid) ==
  SelectSeq(Prerequisites(lid), LAMBDA x : ~InSeq(p.completed_lessons, x))

check_prerequisites_AnyOne(p, lid) ==
  Prerequisites(lid) = <<>>
    \/ Len(missing_prerequisites(p, lid)) < Len(Prerequisites(lid))

\* LinuxTutor.check_prerequisites: its return value
check_prerequisites(p, lid) ==
  Prerequisites(lid) = <<>> \/ missing_prerequisites(p, lid) = <<>>

\* what check_prerequisites prints when it returns False
PrerequisiteReport(p, lid) ==
  LET missing == missing_prerequisites(p, lid) IN
    << Line("Cannot start", 0, 0, lid) >>
      \o [k \in 1..Len(missing) |-> Line("You need to complete", 0, 0, missing[k])]
      \o << Line("Start with", 0, 0, missing[1]) >>

\* LinuxTutor.start_lesson: the progress after it, whether it saved, and
\* what it printed
start_lesson(p, lesson_name) ==
  IF lesson_name \notin LessonIds
    THEN [progress |-> p, save |-> FALSE,
          lines |-> << Line("not found", 0, 0, lesson_name) >>]
  ELSE IF ~check_prerequisites(p, lesson_name)
    THEN [progress |-> p, save |-> FALSE,
          lines |-> PrerequisiteReport(p, lesson_name)]
  ELSE [progress |-> [p EXCEPT !.current_lesson = lesson_name], save |-> TRUE,
        lines |-> << Line("To continue with this lesson", 0, 0, lesson_name) >>]

set_level_Unchecked(p, level) ==
  [progress |-> [p EXCEPT !.current_level = level], save |-> TRUE,
   lines |-> << Line("Level set to", 0, 0, level) >>]

\* LinuxTutor.set_level
set_level(p, level) ==
  IF ~InSeq(valid_levels, level)
    THEN [progress |-> p, save |-> FALSE,
          lines |-> << Line("Invalid level", 0, 0, "") >>]
    ELSE [progress |-> [p EXCEPT !.current_level = level], save |-> TRUE,
          lines |-> << Line("Level set to", 0, 0, level) >>]

\* ProgressManager.mark_lesson_complete
mark_lesson_complete(p, lesson_name) ==
  LET p1 == IF ~InSeq(p.completed_lessons, lesson_name)
              THEN [WithStat(p, "lessons_completed", Stat(p, "lessons_completed") + 1)
                      EXCEPT !.completed_lessons = Append(@, lesson_name)]
              ELSE p
  IN [p1 EXCEPT !.current_lesson = "None"]

(***************************************************************************)
(* Keyword search (lessons.py): _search_in_lesson and search_lessons.      *)
(***************************************************************************)
\* the longest keyword list searched for
MaxKeywords == 2

\* context_chars of _extract_snippet
context_chars == 50

Max(a, b) == IF a > b THEN a ELSE b

\* text[pos:pos+len(kw)] == kw, pos counted from 0
StartsAt(text, kw, pos) ==
  /\ pos + Len(kw) <= Len(text)
  /\ \A j \in 1..Len(kw) : text[pos + j] = kw[j]

\* str.find: the first position of kw in text, -1 when there is none
str_find(text, kw) ==
  LET at == { pos \in 0..Len(text) : StartsAt(text, kw, pos) } IN
    IF at = {} THEN -1 ELSE CHOOSE pos \in at : \A q \in at : pos <= q

\* str.count: the occurrences of kw in text that do not overlap, counted
\* from the left; the empty string occurs len(text) + 1 times
RECURSIVE CountFrom(_, _, _)
CountFrom(text, kw, pos) ==
  IF pos + Len(kw) > Len(text) THEN 0
  ELSE IF StartsAt(text, kw, pos) THEN 1 + CountFrom(text, kw, pos + Len(kw))
  ELSE CountFrom(text, kw, pos + 1)

str_count(text, kw) ==
  IF kw = <<>> THEN Len(text) + 1 ELSE CountFrom(text, kw, 0)

\* _extract_snippet(text, keyword)
extract_snippet(text, keyword) ==
  LET pos == str_find(Lower(text), Lower(keyword))
      start == Max(0, pos - context_chars)
      end == Min(Len(text), pos + Len(keyword) + context_chars)
      snippet == SubSeq(text, start + 1, end)
  IN IF pos = -1 THEN <<>>
     ELSE (IF start > 0 THEN <<".",".",".">> ELSE <<>>)
            \o snippet
            \o (IF end < Len(text) THEN <<".",".",".">> ELSE <<>>)

\* weights of _calculate_score, weights.get(field_type, 1)
Weight(field_type) ==
  CASE field_type = "title" -> 10
    [] field_type = "description" -> 5
    [] field_type = "section_title" -> 3
    [] field_type = "command_desc" -> 2
    [] field_type = "command" -> 2
    [] field_type = "text" -> 1
    [] field_type = "level" -> 3
    [] OTHER -> 1

\* the lesson of TestSearchInLesson.setUp
TestLesson ==
  [title |-> <<"T","e","s","t"," ","L","e","s","s","o","n"," ","A","b","o","u","t"," ","F","i","l","e","s">>,
   level |-> <<"b","e","g","i","n","n","e","r">>,
   description |->
     <<"L","e","a","r","n"," ","a","b","o","u","t"," ","f","i","l","e"," ","m","a","n","a","g","e","m","e","n","t"," ","a","n","d"," ","s","e","c","u","r","i","t","y",".">>,
   content |->
     << [type |-> "explanation",
         title |-> <<"F","i","l","e"," ","S","y","s","t","e","m"," ","B","a","s","i","c","s">>,
         text |->
           <<"T","h","e"," ","f","i","l","e"," ","s","y","s","t","e","m"," ","i","s"," ","w","h","e","r","e"," ","a","l","l"," ","y","o","u","r"," ","f","i","l","e","s"," ","a","r","e"," ","s","t","o","r","e","d",".">>],
        [type |-> "exercise",
         title |-> <<"P","r","a","c","t","i","c","e"," ","w","i","t","h"," ","F","i","l","e","s">>,
         instructions |-> <<"T","r","y"," ","t","h","e","s","e"," ","f","i","l","e"," ","c","o","m","m","a","n","d","s",".">>,
         commands |->
           << [cmd |-> <<"l","s"," ","-","l","a">>,
               description |->
                 <<"L","i","s","t"," ","a","l","l"," ","f","i","l","e","s"," ","i","n"," ","d","i","r","e","c","t","o","r","y">>],
              [cmd |-> <<"c","a","t"," ","f","i","l","e",".","t","x","t">>,
               description |-> <<"D","i","s","p","l","a","y"," ","f","i","l","e"," ","c","o","n","t","e","n","t","s">>] >>] >>]

\* a lesson with no 'content'
BareLesson ==
  [title |-> <<"P","r","o","c","e","s","s"," ","M","a","n","a","g","e","m","e","n","t">>,
   level |-> <<"i","n","t","e","r","m","e","d","i","a","t","e">>,
   description |->
     <<"L","e","a","r","n"," ","t","o"," ","m","o","n","i","t","o","r"," ","a","n","d"," ","c","o","n","t","r","o","l"," ","p","r","o","c","e","s","s","e","s"," ","i","n"," ","L","i","n","u","x",".">>]

\* an exercise with neither instructions nor commands, a section with no title
SparseLesson ==
  [title |-> <<"L","i","n","u","x"," ","S","e","c","u","r","i","t","y"," ","F","u","n","d","a","m","e","n","t","a","l","s">>,
   level |-> <<"a","d","v","a","n","c","e","d">>,
   description |->
     <<"L","e","a","r","n"," ","e","s","s","e","n","t","i","a","l"," ","L","i","n","u","x"," ","s","e","c","u","r","i","t","y"," ","c","o","n","c","e","p","t","s"," ","a","n","d"," ","b","e","s","t"," ","p","r","a","c","t","i","c","e","s",".">>,
   content |-> << [type |-> "exercise"],
                  [type |-> "explanation",
                   text |-> <<"S","e","c","u","r","i","t","y"," ","i","s"," ","a"," ","p","r","o","c","e","s","s",".">>] >>]

\* lesson_data given to _search_in_lesson, and LESSONS as search_lessons
\* reads it
SearchLessonData ==
  [ x \in {"test-lesson", "process-management", "security-basics"} |->
      CASE x = "test-lesson" -> TestLesson
        [] x = "process-management" -> BareLesson
        [] x = "security-basics" -> SparseLesson ]

\* LESSONS.items() in the order of the dictionary
SearchOrder == <<"test-lesson", "process-management", "security-basics">>

\* words a user searches for
KeywordPool ==
  { <<"f","i","l","e">>, <<"F","i","l","e">>,
    <<"s","e","c","u","r","i","t","y">>, <<"m","i","s","s","i","n","g">>,
    <<"l","s">>, <<>> }

RECURSIVE SeqsUpTo(_, _)
SeqsUpTo(S, n) ==
  IF n = 0 THEN { <<>> }
  ELSE LET shorter == SeqsUpTo(S, n - 1) IN
         shorter \cup { Append(sq, x) : sq \in shorter, x \in S }

\* keyword lists of the command line
KeywordLists == SeqsUpTo(KeywordPool, MaxKeywords)

\* d.get(k, default)
DictGet(d, k, default) == IF k \in DOMAIN d THEN d[k] ELSE default

\* sum(sq)
Total(sq) ==
  LET f[k \in 0..Len(sq)] == IF k = 0 THEN 0 ELSE f[k - 1] + sq[k]
  IN f[Len(sq)]

\* one text _search_in_lesson looks into: the field type it counts for,
\* whether it counts occurrences or tests 'kw in', whether the first hit
\* leaves a snippet and whether that needs a non-empty text
SearchField(ft, t, h, sn, ne) ==
  [field |-> ft, text |-> t, how |-> h, snippet |-> sn, nonempty |-> ne]

\* for cmd_info in section.get('commands', [])
RECURSIVE CommandFields(_)
CommandFields(commands) ==
  IF commands = <<>> THEN <<>>
  ELSE << SearchField("command", DictGet(Head(commands), "cmd", <<>>),
                      "count", TRUE, FALSE),
          SearchField("command_desc", DictGet(Head(commands), "description", <<>>),
                      "count", TRUE, FALSE) >>
         \o CommandFields(Tail(commands))

\* the body of 'for section in lesson_data.get('content', [])'
SectionFields(section) ==
  << SearchField("section_title", DictGet(section, "title", <<>>),
                 "count", TRUE, FALSE) >>
    \o (IF DictGet(section, "type", "None") = "explanation"
          THEN << SearchField("text", DictGet(section, "text", <<>>),
                              "count", TRUE, FALSE) >>
          ELSE <<>>)
    \o (IF DictGet(section, "type", "None") = "exercise"
          THEN << SearchField("text", DictGet(section, "instructions", <<>>),
                              "count", TRUE, TRUE) >>
                 \o CommandFields(DictGet(section, "commands", <<>>))
          ELSE <<>>)

RECURSIVE ContentFields(_)
ContentFields(content) ==
  IF content = <<>> THEN <<>>
  ELSE SectionFields(Head(content)) \o ContentFields(Tail(content))

\* the texts _search_in_lesson looks into, in its order
SearchFields(lesson_data) ==
  << SearchField("title", lesson_data.title, "count", FALSE, FALSE),
     SearchField("description", lesson_data.description, "count", TRUE, FALSE),
     SearchField("level", lesson_data.level, "in", FALSE, FALSE) >>
    \o ContentFields(DictGet(lesson_data, "content", <<>>))

\* what one keyword adds to matches[field type] for one text
Hits(f, kw) ==
  IF f.how = "in"
    THEN (IF str_find(Lower(f.text), kw) >= 0 THEN 1 ELSE 0)
    ELSE str_count(Lower(f.text), kw)

\* 'if len(keywords_found) != len(keywords_lower)': a set against a list
NotAllFound(keywords_found, keywords_lower) ==
  Cardinality(keywords_found) # Len(keywords_lower)

\* the field types of matches, in the order of their first use
type_list ==
  <<"title", "description", "level", "section_title", "text", "command",
    "command_desc">>

\* the rest of _search_in_lesson once every text was searched;
\* hits[n][k] is what keyword k added for text n
MatchInfo(fields, keywords_lower, hits) ==
  LET field_hits == [n \in 1..Len(fields) |-> Total(hits[n])]
      type_hits ==
        [t \in 1..Len(type_list) |->
           Total([n \in 1..Len(fields) |->
                    IF fields[n].field = type_list[t] THEN Total(hits[n]) ELSE 0])]
      fields_matched ==
        { type_list[t] : t \in { u \in 1..Len(type_list) : type_hits[u] > 0 } }
      matches == [ft \in fields_matched |-> type_hits[IndexOf(type_list, ft)]]
      keywords_found ==
        { keywords_lower[k] : k \in { j \in 1..Len(keywords_lower) :
            \E n \in 1..Len(fields) : hits[n][j] > 0 } }
      \* the hits that may set snippets[ft], as <<text, keyword>> positions
      snippet_hits ==
        { nk \in (1..Len(fields)) \X (1..Len(keywords_lower)) :
            /\ fields[nk[1]].snippet
            /\ hits[nk[1]][nk[2]] > 0
            /\ fields[nk[1]].nonempty => fields[nk[1]].text # <<>> }
      OfType(ft) == { nk \in snippet_hits : fields[nk[1]].field = ft }
      FirstHit(ft) ==
        CHOOSE nk \in OfType(ft) :
          \A other \in OfType(ft) :
            nk[1] < other[1] \/ (nk[1] = other[1] /\ nk[2] <= other[2])
      snippets ==
        [ft \in { fields[nk[1]].field : nk \in snippet_hits } |->
           extract_snippet(fields[FirstHit(ft)[1]].text,
                           keywords_lower[FirstHit(ft)[2]])]
      score ==
        Total([t \in 1..Len(type_list) |-> type_hits[t] * Weight(type_list[t])])
  IN IF NotAllFound(keywords_found, keywords_lower) THEN <<>>
     ELSE << [matches |-> matches, score |-> score,
              fields_matched |-> fields_matched, snippets |-> snippets] >>

\* _search_in_lesson(lesson_data, keywords): <<>> for None, else <<the
\* match info>>
\* (the texts, the keywords and the hits are bound variables so that each
\* is evaluated once)
search_in_lesson(lesson_data, kws) ==
  CHOOSE info \in
    UNION { { MatchInfo(fields, keywords_lower, hits) :
                hits \in { [n \in 1..Len(fields) |->
                             [k \in 1..Len(keywords_lower) |->
                                Hits(fields[n], keywords_lower[k])]] } } :
              fields \in { SearchFields(lesson_data) },
              keywords_lower \in { [k \in 1..Len(kws) |-> Lower(kws[k])] } } : TRUE

\* results.sort(key=score, reverse=True) of the lessons that matched:
\* highest score first, equal scores in lesson order
SortedResults(lessons, order, info) ==
  LET hit == { n \in 1..Len(order) : info[n] # <<>> }
      Before(a, b) ==
        \/ info[a][1].score > info[b][1].score
        \/ info[a][1].score = info[b][1].score /\ a < b
      rank == [n \in hit |-> Cardinality({ m \in hit : Before(m, n) }) + 1]
  IN [r \in 1..Cardinality(hit) |->
        LET n == CHOOSE m \in hit : rank[m] = r IN
          [lesson_id |-> order[n],
           lesson_data |-> lessons[order[n]],
           score |-> info[n][1].score,
           fields_matched |-> info[n][1].fields_matched,
           snippets |-> info[n][1].snippets]]

\* search_lessons(keywords) over the lessons of 'lessons' in the order
\* 'order'
search_lessons(lessons, order, kws) ==
  CHOOSE results_list \in
    { SortedResults(lessons, order, info) :
        info \in { [n \in 1..Len(order) |->
                     search_in_lesson(lessons[order[n]], kws)] } } : TRUE

(***************************************************************************)
(* State.                                                                  *)
(***************************************************************************)
VARIABLES
  pc,              \* where the program waits: "idle", "sections", "ready",
                   \* "answer", "continue", "retry", "returned" (QuizRunner.run
                   \* has returned), "lesson_returned", "raised"
  caller,          \* who called QuizRunner.run: "run_lesson", "direct", "none"
  lesson,          \* the lesson run_lesson was given: [id, quiz]
  questions,       \* self.quiz.questions
  i,               \* the question number of the for loop of run
  total_attempts,  \* the counter of run
  result,          \* <<total_attempts, completed>> once run returned, else <<>>
  out,             \* the lines printed since the call
  progress,        \* tutor.progress
  saved,           \* the progress file: <<>> or <<progress written last>>
  runs,            \* calls of run_lesson made so far
  records,         \* the quiz_data list of a direct call of Quiz()
  input_text,      \* the user_input of a direct call of validate_answer
  verdict,         \* what that call did: "True", "False", "raised"; else "none"
  calls,           \* the attempts arguments of the calls of
                   \* progress_mgr.increment_quiz_stats made so far
  lesson_data,     \* <<the lesson_data of a call of _search_in_lesson>>, else <<>>
  keywords,        \* the keywords of a search
  results          \* what the search returned, "none" before it: <<>> for
                   \* None or <<match info>> from _search_in_lesson, the list
                   \* of results from search_lessons

vars == <<pc, caller, lesson, questions, i, total_attempts, result, out,
          progress, saved, runs, records, input_text, verdict, calls,
          lesson_data, keywords, results>>

\* the state of a search
searchvars == <<lesson_data, keywords, results>>

\* the state of the direct calls of Quiz(), validate_answer, ProgressManager
\* and the search
callvars == <<records, input_text, verdict, calls, lesson_data, keywords, results>>

NoLesson == [id |-> "None", quiz |-> <<>>]

\* the methods of ProgressManager (progress_manager.py defines no other)
ProgressManagerMethods ==
  {"load_progress", "save_progress", "_create_default_progress",
   "mark_lesson_complete", "set_current_lesson", "set_level",
   "increment_exercises", "mark_not_first_time"}

Init ==
  /\ pc = "idle"
  /\ caller = "none"
  /\ lesson = NoLesson
  /\ questions = <<>>
  /\ i = 0
  /\ total_attempts = 0
  /\ result = <<>>
  /\ out = <<>>
  /\ progress = DefaultProgress
  /\ saved = <<>>
  /\ runs = 0
  /\ records = <<>>
  /\ input_text = <<>>
  /\ verdict = "none"
  /\ calls = <<>>
  /\ lesson_data = <<>>
  /\ keywords = <<>>
  /\ results = "none"

QuestionLine_FromZero(k, total) == Line("Question", k - 1, total, "")

QuestionLine(k, total) == Line("Question", k, total, "")

NextAttempt_NoCount(ta) == ta

\* total_attempts += 1, at the top of the while loop
NextAttempt(ta) == ta + 1

CompletedResult_NotCompleted(ta) == <<ta, FALSE>>

\* return (total_attempts, True)
CompletedResult(ta) == <<ta, TRUE>>

DeclinedResult_BeforeCount(ta) == <<ta - 1, FALSE>>

\* return (total_attempts, False), the retry was declined
DeclinedResult(ta) == <<ta, FALSE>>

InterruptedResult_Answered(ta, idx) == <<idx - 1, FALSE>>

\* return (total_attempts, False) of the except clause; idx is i
InterruptedResult(ta, idx) == <<ta, FALSE>>

retry_reply_NoLower(line) == Strip(line)

\* retry = input("\nTry again? [Y/n]: ").strip().lower()
retry_reply(line) == Lower(Strip(line))

RunBegin_EmptyNotCompleted(qs, o) ==
  /\ questions' = qs
  /\ IF Len(qs) = 0
       THEN /\ i' = 0
            /\ total_attempts' = 0
            /\ out' = o
            /\ result' = <<0, FALSE>>
            /\ pc' = "returned"
       ELSE /\ i' = 1
            /\ total_attempts' = NextAttempt(0)
            /\ out' = Append(o, QuestionLine(1, Len(qs)))
            /\ result' = <<>>
            /\ pc' = "answer"

\* QuizRunner.run from its first line to its first input(): the counter is
\* set to 0 and question 1 is shown, or, with no question, the summary is
\* shown and run returns
RunBegin(qs, o) ==
  /\ questions' = qs
  /\ IF Len(qs) = 0
       THEN /\ i' = 0
            /\ total_attempts' = 0
            /\ out' = o \o show_completion(0, 0)
            /\ result' = CompletedResult(0)
            /\ pc' = "returned"
       ELSE /\ i' = 1
            /\ total_attempts' = NextAttempt(0)
            /\ out' = Append(o, QuestionLine(1, Len(qs)))
            /\ result' = <<>>
            /\ pc' = "answer"

\* a caller builds Quiz(quiz_data) and calls QuizRunner(quiz).run()
StartRun(quiz_data) ==
  /\ UNCHANGED callvars
  /\ pc = "idle"
  /\ caller' = "direct"
  /\ IF QuizInitRaises(quiz_data)
       THEN /\ pc' = "raised"
            /\ UNCHANGED <<questions, i, total_attempts, result, out>>
       ELSE RunBegin(QuizInit(quiz_data), <<>>)
  /\ UNCHANGED <<lesson, progress, saved, runs>>

\* input("\nYour answer: ") returns a line; the ValueError of validate_answer
\* is not caught by run
Answer(line) ==
  /\ UNCHANGED callvars
  /\ pc = "answer"
  /\ LET user_answer == Strip(line) IN
       IF validate_raises(questions[i], user_answer)
         THEN /\ pc' = "raised"
              /\ UNCHANGED out
       ELSE IF validate_answer(questions[i], user_answer)
         THEN /\ out' = out \o << Line("Correct", 0, 0, ""),
                                  Line("Explanation", 0, 0, questions[i].explanation) >>
              /\ pc' = "continue"
         ELSE /\ out' = out \o << Line("Incorrect", 0, 0, ""),
                                  Line("Explanation", 0, 0, questions[i].explanation) >>
              /\ pc' = "retry"
  /\ UNCHANGED <<caller, lesson, questions, i, total_attempts, result,
                 progress, saved, runs>>

\* input("\n[Press Enter to continue...]") returns: break, next question
Continue(line) ==
  /\ UNCHANGED callvars
  /\ pc = "continue"
  /\ IF i < Len(questions)
       THEN /\ i' = i + 1
            /\ total_attempts' = NextAttempt(total_attempts)
            /\ out' = Append(out, QuestionLine(i + 1, Len(questions)))
            /\ pc' = "answer"
            /\ UNCHANGED result
       ELSE /\ out' = out \o show_completion(total_attempts, Len(questions))
            /\ result' = CompletedResult(total_attempts)
            /\ pc' = "returned"
            /\ UNCHANGED <<i, total_attempts>>
  /\ UNCHANGED <<caller, lesson, questions, progress, saved, runs>>

\* the wrong answers given so far in this run: the "Incorrect" lines printed
WrongSoFar == Len(SelectSeq(out, LAMBDA l : l.msg = "Incorrect"))

Retry_NoCount(line) ==
  /\ UNCHANGED callvars
  /\ pc = "retry"
  /\ LET retry == retry_reply(line) IN
       IF retry \notin { <<>>, <<"y">>, <<"y","e","s">> }
         THEN /\ result' = DeclinedResult(total_attempts)
              /\ pc' = "returned"
              /\ UNCHANGED <<total_attempts, out>>
         ELSE /\ WrongSoFar <= MaxRetries
              /\ out' = Append(out, QuestionLine(i, Len(questions)))
              /\ pc' = "answer"
              /\ UNCHANGED <<result, total_attempts>>
  /\ UNCHANGED <<caller, lesson, questions, i, progress, saved, runs>>

\* input("\nTry again? [Y/n]: ") returns a line
Retry(line) ==
  /\ UNCHANGED callvars
  /\ pc = "retry"
  /\ LET retry == retry_reply(line) IN
       IF retry \notin { <<>>, <<"y">>, <<"y","e","s">> }
         THEN /\ result' = DeclinedResult(total_attempts)
              /\ pc' = "returned"
              /\ UNCHANGED <<total_attempts, out>>
         ELSE /\ WrongSoFar <= MaxRetries
              /\ total_attempts' = NextAttempt(total_attempts)
              /\ out' = Append(out, QuestionLine(i, Len(questions)))
              /\ pc' = "answer"
              /\ UNCHANGED result
  /\ UNCHANGED <<caller, lesson, questions, i, progress, saved, runs>>

\* input() raises EOFError or KeyboardInterrupt at one of the three prompts
Interrupt(exc) ==
  /\ UNCHANGED callvars
  /\ pc \in {"answer", "continue", "retry"}
  /\ exc \in {"EOFError", "KeyboardInterrupt"}
  /\ out' = out \o << Line("Quiz interrupted", 0, 0, ""),
                      Line("You answered", i - 1, Len(questions), "") >>
  /\ result' = InterruptedResult(total_attempts, i)
  /\ pc' = "returned"
  /\ UNCHANGED <<caller, lesson, questions, i, total_attempts,
                 progress, saved, runs>>

(***************************************************************************)
(* run_lesson (lessons.py) with a LinuxTutor as tutor.                     *)
(***************************************************************************)
\* continue_lesson calls run_lesson(lesson, tutor): the sections start
StartLesson(lid, quiz_data) ==
  /\ UNCHANGED callvars
  /\ pc = "idle"
  /\ quiz_data \in LessonQuizData(lid)
  /\ runs < MaxRuns
  /\ runs' = runs + 1
  /\ lesson' = [id |-> lid, quiz |-> quiz_data]
  /\ caller' = "run_lesson"
  /\ pc' = "sections"
  /\ out' = <<Line("Starting", 0, 0, "")>>
  /\ UNCHANGED <<questions, i, total_attempts, result, progress, saved>>

\* 'q' at an exercise prompt: run_lesson returns
SectionsQuit ==
  /\ UNCHANGED callvars
  /\ pc = "sections"
  /\ out' = Append(out, Line("Lesson interrupted", 0, 0, ""))
  /\ pc' = "lesson_returned"
  /\ UNCHANGED <<caller, lesson, questions, i, total_attempts, result,
                 progress, saved, runs>>

\* the progress after complete_lesson and the exercise count of the lesson
CompletedProgress(p, les) ==
  add_exercises(complete_lesson(p, les.id), ExerciseCount(les.id))

HasQuiz_Never(les) == FALSE

\* quiz_data = lesson.get('quiz'); if quiz_data:
HasQuiz(les) == les.quiz # <<>>

\* the last section ends: with a quiz the "Ready to start the quiz?" prompt
\* follows, without one the lesson is marked complete
SectionsDone ==
  /\ UNCHANGED callvars
  /\ pc = "sections"
  /\ IF HasQuiz(lesson)
       THEN /\ out' = Append(out, Line("Lesson Complete", 0, 0, ""))
            /\ pc' = "ready"
            /\ UNCHANGED <<progress, saved>>
       ELSE /\ pc' = "lesson_returned"
            /\ IF lesson.id # "None"
                 THEN /\ progress' = CompletedProgress(progress, lesson)
                      /\ saved' = <<progress'>>
                      /\ out' = out \o << Line("Lesson Complete", 0, 0, ""),
                                          Line("Completed lesson", 0, 0, "") >>
                 ELSE /\ out' = Append(out, Line("Lesson Complete", 0, 0, ""))
                      /\ UNCHANGED <<progress, saved>>
  /\ UNCHANGED <<caller, lesson, questions, i, total_attempts, result, runs>>

\* prompt_yes_no("\nReady to start the quiz? [Y/n]: ") returns
Ready(line) ==
  /\ UNCHANGED callvars
  /\ pc = "ready"
  /\ LET response == Strip(Lower(line)) IN
       IF response \notin AFFIRMATIVE_RESPONSES
         THEN /\ out' = Append(out, Line("come back later", 0, 0, ""))
              /\ pc' = "lesson_returned"
              /\ UNCHANGED <<questions, i, total_attempts, result>>
         ELSE IF QuizInitRaises(lesson.quiz)
           THEN /\ pc' = "raised"
                /\ UNCHANGED <<questions, i, total_attempts, result, out>>
           ELSE RunBegin(QuizInit(lesson.quiz), out)
  /\ UNCHANGED <<caller, lesson, progress, saved, runs>>

\* input() raises in a section or at the "Ready" prompt: run_lesson does not
\* catch it
LessonInterrupt(exc) ==
  /\ UNCHANGED callvars
  /\ pc \in {"sections", "ready"}
  /\ exc \in {"EOFError", "KeyboardInterrupt"}
  /\ pc' = "raised"
  /\ UNCHANGED <<caller, lesson, questions, i, total_attempts, result, out,
                 progress, saved, runs>>

\* attempts, completed = runner.run(); if completed:
QuizPassed(res) == res[2]

\* runner.run() has returned to run_lesson.  After a completed quiz line 1392
\* calls tutor.progress_mgr.increment_quiz_stats, a method ProgressManager
\* does not have: AttributeError, before progress is touched or saved
AfterQuiz ==
  /\ UNCHANGED callvars
  /\ pc = "returned"
  /\ caller = "run_lesson"
  /\ LET completed == QuizPassed(result) IN
       IF completed
         THEN /\ "increment_quiz_stats" \notin ProgressManagerMethods
              /\ pc' = "raised"
              /\ UNCHANGED <<progress, saved, out>>
         ELSE /\ out' = Append(out, Line("Quiz not completed", 0, 0, ""))
              /\ pc' = "lesson_returned"
              /\ UNCHANGED <<progress, saved>>
  /\ UNCHANGED <<caller, lesson, questions, i, total_attempts, result, runs>>

\* the locals of a call are gone once it is over
DropLocals ==
  /\ UNCHANGED callvars
  /\ pc' = "idle"
  /\ caller' = "none"
  /\ lesson' = NoLesson
  /\ questions' = <<>>
  /\ i' = 0
  /\ total_attempts' = 0
  /\ result' = <<>>
  /\ out' = <<>>
  /\ UNCHANGED <<progress, saved, runs>>

\* the direct caller goes on with the result, or with the ValueError
FinishRun ==
  /\ caller = "direct"
  /\ pc \in {"returned", "raised"}
  /\ DropLocals

\* the caller of run_lesson goes on
FinishLesson ==
  /\ caller = "run_lesson"
  /\ pc \in {"lesson_returned", "raised"}
  /\ DropLocals

(***************************************************************************)
(* Spec: the quiz core, Quiz() and QuizRunner.run called directly.         *)
(***************************************************************************)
Next ==
  \/ \E qd \in QuizDataSet : StartRun(qd)
  \/ \E line \in Lines : Answer(line)
  \/ \E line \in Lines : Continue(line)
  \/ \E line \in Lines : Retry(line)
  \/ \E exc \in {"EOFError", "KeyboardInterrupt"} : Interrupt(exc)
  \/ FinishRun

Spec == Init /\ [][Next]_vars

(***************************************************************************)
(* LessonSpec: run_lesson, which runs the quiz of the lesson.              *)
(***************************************************************************)
LessonNext ==
  \/ \E lid \in LessonArgs : \E qd \in LessonQuizData(lid) : StartLesson(lid, qd)
  \/ SectionsQuit
  \/ SectionsDone
  \/ \E line \in Lines : Ready(line)
  \/ \E exc \in {"EOFError", "KeyboardInterrupt"} : LessonInterrupt(exc)
  \/ \E line \in Lines : Answer(line)
  \/ \E line \in Lines : Continue(line)
  \/ \E line \in Lines : Retry(line)
  \/ \E exc \in {"EOFError", "KeyboardInterrupt"} : Interrupt(exc)
  \/ AfterQuiz
  \/ FinishLesson

\* the tutor was built with LinuxTutor(): progress is what load_progress read
LessonInit ==
  /\ pc = "idle"
  /\ caller = "none"
  /\ lesson = NoLesson
  /\ questions = <<>>
  /\ i = 0
  /\ total_attempts = 0
  /\ result = <<>>
  /\ out = <<>>
  /\ saved \in ProgressFiles
  /\ progress = load_progress(saved)
  /\ runs = 0
  /\ records = <<>>
  /\ input_text = <<>>
  /\ verdict = "none"
  /\ calls = <<>>
  /\ lesson_data = <<>>
  /\ keywords = <<>>
  /\ results = "none"

LessonSpec == LessonInit /\ [][LessonNext]_vars

(***************************************************************************)
(* ConstructSpec: Quiz(quiz_data) called on a list of records, and         *)
(* QuizRunner(quiz).run() on the quiz it built.                            *)
(***************************************************************************)
ConstructInit ==
  /\ Init!1 /\ Init!2 /\ Init!3 /\ Init!4 /\ Init!5 /\ Init!6 /\ Init!7
  /\ Init!8 /\ Init!9 /\ Init!10 /\ Init!11
  /\ records \in ConstructDataSet
  /\ input_text = <<>>
  /\ verdict = "none"
  /\ calls = <<>>
  /\ lesson_data = <<>>
  /\ keywords = <<>>
  /\ results = "none"

\* quiz = Quiz(records): self.questions, or ValueError and no object
Construct ==
  /\ pc = "idle"
  /\ caller' = "direct"
  /\ IF QuizInitRaises(records)
       THEN /\ pc' = "raised"
            /\ UNCHANGED questions
       ELSE /\ pc' = "built"
            /\ questions' = QuizInit(records)
  /\ UNCHANGED <<lesson, i, total_attempts, result, out, progress, saved, runs,
                 callvars>>

\* QuizRunner(quiz).run() up to its first prompt: there is a quiz to run
\* only when Quiz() returned
BeginRun ==
  /\ pc = "built"
  /\ RunBegin(questions, <<>>)
  /\ UNCHANGED <<caller, lesson, progress, saved, runs, callvars>>

ConstructNext ==
  \/ Construct
  \/ BeginRun

ConstructSpec == ConstructInit /\ [][ConstructNext]_vars

(***************************************************************************)
(* ValidateSpec: question.validate_answer(user_input) called on one        *)
(* constructed question.                                                   *)
(***************************************************************************)
ValidateInit ==
  /\ pc = "built"
  /\ caller = "direct"
  /\ Init!3 /\ Init!5 /\ Init!6 /\ Init!7 /\ Init!8 /\ Init!9 /\ Init!10
  /\ Init!11
  /\ records \in { <<r>> : r \in ValidateRecords }
  /\ questions = QuizInit(records)
  /\ input_text \in InputSet
  /\ verdict = "none"
  /\ calls = <<>>
  /\ lesson_data = <<>>
  /\ keywords = <<>>
  /\ results = "none"

\* questions[0].validate_answer(input_text): it returns True or False or
\* raises; no method of a question assigns to self after __init__
Validate ==
  /\ pc = "built"
  /\ verdict' = IF validate_raises(questions[1], input_text) THEN "raised"
                ELSE IF validate_answer(questions[1], input_text) THEN "True"
                ELSE "False"
  /\ pc' = "validated"
  /\ UNCHANGED <<caller, lesson, questions, i, total_attempts, result, out,
                 progress, saved, runs, records, input_text, calls,
                 searchvars>>

ValidateNext == Validate

ValidateSpec == ValidateInit /\ [][ValidateNext]_vars

(***************************************************************************)
(* ProgressSpec: a ProgressManager, its load_progress and the calls of     *)
(* increment_quiz_stats that run_lesson and the tests make on it.          *)
(***************************************************************************)
\* ProgressManager(config_dir) was built; nothing is loaded yet
ProgressInit ==
  /\ Init!1 /\ Init!2 /\ Init!3 /\ Init!4 /\ Init!5 /\ Init!6 /\ Init!7
  /\ Init!8 /\ Init!11
  /\ saved \in ProgressFiles
  /\ progress = <<>>
  /\ records = <<>>
  /\ input_text = <<>>
  /\ verdict = "none"
  /\ calls = <<>>
  /\ lesson_data = <<>>
  /\ keywords = <<>>
  /\ results = "none"

\* progress = progress_mgr.load_progress()
LoadProgress ==
  /\ pc = "idle"
  /\ progress' = pm_load_progress(saved)
  /\ pc' = "loaded"
  /\ UNCHANGED <<caller, lesson, questions, i, total_attempts, result, out,
                 saved, runs, callvars>>

\* progress = progress_mgr.increment_quiz_stats(progress, attempts): the
\* attribute lookup fails, ProgressManager has no such method, and the
\* assignment does not happen
IncrementQuizStats(attempts) ==
  /\ pc = "loaded"
  /\ Len(calls) < MaxCalls
  /\ calls' = Append(calls, attempts)
  /\ "increment_quiz_stats" \notin ProgressManagerMethods
  /\ pc' = "raised"
  /\ UNCHANGED <<caller, lesson, questions, i, total_attempts, result, out,
                 progress, saved, runs, records, input_text, verdict,
                 searchvars>>

\* the caller handles the AttributeError and goes on with its progress
AfterAttributeError ==
  /\ pc = "raised"
  /\ pc' = "loaded"
  /\ UNCHANGED <<caller, lesson, questions, i, total_attempts, result, out,
                 progress, saved, runs, callvars>>

ProgressNext ==
  \/ LoadProgress
  \/ \E attempts \in 1..MaxAttempts : IncrementQuizStats(attempts)
  \/ AfterAttributeError

ProgressSpec == ProgressInit /\ [][ProgressNext]_vars

(***************************************************************************)
(* TutorSpec: the commands of a LinuxTutor that read and write progress    *)
(* without running a lesson.                                               *)
(***************************************************************************)
\* lesson names given to complete_lesson and mark_lesson_complete
CompleteArgs ==
  {"intro-to-terminal", "file-system-basics", "basic-commands", "process-management"}

\* lesson names given to start_lesson; "text-processing" is no key of LESSONS
StartArgs == CompleteArgs \cup {"shell-scripting", "text-processing"}

\* levels given to set_level
LevelArgs ==
  {"beginner", "intermediate", "advanced", "expert", "guru", "Beginner", ""}

\* what a command leaves behind: the progress, the file when it saved, the
\* lines it printed
CommandDone(r) ==
  /\ progress' = r.progress
  /\ saved' = IF r.save THEN <<r.progress>> ELSE saved
  /\ out' = r.lines

\* the variables the commands of a tutor leave alone
TutorFrame ==
  UNCHANGED <<caller, lesson, questions, i, total_attempts, result, runs,
              records, input_text, calls, searchvars>>

\* next_lesson = tutor.get_next_lesson()
GetNextLesson ==
  /\ pc = "idle"
  /\ verdict' = get_next_lesson(progress)
  /\ out' = <<>>
  /\ UNCHANGED <<pc, progress, saved>>
  /\ TutorFrame

\* tutor.complete_lesson(name)
CompleteLesson(name) ==
  /\ pc = "idle"
  /\ Len(progress.completed_lessons) < MaxCompleted
       \/ InSeq(progress.completed_lessons, name)
  /\ CommandDone([progress |-> complete_lesson(progress, name), save |-> TRUE,
                  lines |-> << Line("Completed lesson", 0, 0, "") >>])
  /\ verdict' = "none"
  /\ UNCHANGED pc
  /\ TutorFrame

\* tutor.progress = ProgressManager(dir).mark_lesson_complete(tutor.progress,
\* name): nothing is saved or printed
MarkLessonComplete(name) ==
  /\ pc = "idle"
  /\ Len(progress.completed_lessons) < MaxCompleted
       \/ InSeq(progress.completed_lessons, name)
  /\ CommandDone([progress |-> mark_lesson_complete(progress, name),
                  save |-> FALSE, lines |-> <<>>])
  /\ verdict' = "none"
  /\ UNCHANGED pc
  /\ TutorFrame

\* tutor.set_level(level)
SetLevel(level) ==
  /\ pc = "idle"
  /\ CommandDone(set_level(progress, level))
  /\ verdict' = "none"
  /\ UNCHANGED pc
  /\ TutorFrame

\* tutor.start_lesson(name)
StartLessonCmd(name) ==
  /\ pc = "idle"
  /\ CommandDone(start_lesson(progress, name))
  /\ verdict' = "none"
  /\ UNCHANGED pc
  /\ TutorFrame

\* tutor.suggest_level_up() up to its prompt: below the last level it asks
\* "Move to next level?", at the last level it congratulates, and with a
\* level outside level_progression the ValueError of index() is passed over
SuggestLevelUp ==
  /\ pc = "idle"
  /\ verdict' = "none"
  /\ LET current_index == IndexOf(valid_levels, progress.current_level) - 1 IN
       IF current_index < 0
         THEN /\ out' = <<>>
              /\ pc' = "idle"
       ELSE IF current_index < Len(valid_levels) - 1
         THEN /\ out' = << Line("Ready to level up", 0, 0,
                                valid_levels[current_index + 2]) >>
              /\ pc' = "level_up"
       ELSE /\ out' = << Line("mastered all Linux levels", 0, 0, "") >>
            /\ pc' = "idle"
  /\ UNCHANGED <<progress, saved>>
  /\ TutorFrame

\* input("Move to next level? [Y/n]: ") returns: on an affirmative reply
\* set_level(next_level), then start_lesson of the next lesson if any
LevelUpReply(line) ==
  /\ pc = "level_up"
  /\ verdict' = "none"
  /\ pc' = "idle"
  /\ LET choice == Strip(Lower(line))
         next_level == valid_levels[IndexOf(valid_levels, progress.current_level) + 1]
         levelled == set_level(progress, next_level)
         next_lesson == get_next_lesson(levelled.progress)
         started == start_lesson(levelled.progress, next_lesson)
     IN IF choice \notin { <<>>, <<"y">>, <<"y","e","s">> }
          THEN UNCHANGED <<progress, saved, out>>
        ELSE IF next_lesson = "None"
          THEN CommandDone(levelled)
        ELSE CommandDone([progress |-> started.progress, save |-> TRUE,
                          lines |-> levelled.lines \o started.lines])
  /\ TutorFrame

\* input() raises at the level-up prompt: nothing catches it
LevelUpInterrupt(exc) ==
  /\ pc = "level_up"
  /\ exc \in {"EOFError", "KeyboardInterrupt"}
  /\ pc' = "raised"
  /\ UNCHANGED <<progress, saved, out, verdict>>
  /\ TutorFrame

\* the program ended with the exception; the next LinuxTutor() loads the file
Restart ==
  /\ pc = "raised"
  /\ pc' = "idle"
  /\ progress' = load_progress(saved)
  /\ out' = <<>>
  /\ UNCHANGED <<saved, verdict>>
  /\ TutorFrame

TutorNext ==
  \/ GetNextLesson
  \/ \E name \in CompleteArgs : CompleteLesson(name)
  \/ \E name \in CompleteArgs : MarkLessonComplete(name)
  \/ \E level \in LevelArgs : SetLevel(level)
  \/ \E name \in StartArgs : StartLessonCmd(name)
  \/ SuggestLevelUp
  \/ \E line \in Lines : LevelUpReply(line)
  \/ \E exc \in {"EOFError", "KeyboardInterrupt"} : LevelUpInterrupt(exc)
  \/ Restart

\* a LinuxTutor() built with no progress file
TutorInit == Init

TutorSpec == TutorInit /\ [][TutorNext]_vars

(***************************************************************************)
(* SearchSpec: _search_in_lesson and search_lessons with a keyword list.   *)
(***************************************************************************)
SearchInit ==
  /\ pc = "search"
  /\ Init!2 /\ Init!3 /\ Init!4 /\ Init!5 /\ Init!6 /\ Init!7 /\ Init!8
  /\ Init!9 /\ Init!10 /\ Init!11 /\ Init!12 /\ Init!13 /\ Init!14 /\ Init!15
  /\ lesson_data = <<>>
  /\ keywords \in KeywordLists
  /\ results = "none"

\* _search_in_lesson(SearchLessonData[lid], keywords)
SearchInLesson(lid) ==
  /\ pc = "search"
  /\ lesson_data' = << SearchLessonData[lid] >>
  /\ results' = search_in_lesson(SearchLessonData[lid], keywords)
  /\ pc' = "searched"
  /\ UNCHANGED <<caller, lesson, questions, i, total_attempts, result, out,
                 progress, saved, runs, records, input_text, verdict, calls,
                 keywords>>

\* search_lessons(keywords)
SearchLessons ==
  /\ pc = "search"
  /\ results' = search_lessons(SearchLessonData, SearchOrder, keywords)
  /\ pc' = "listed"
  /\ UNCHANGED <<caller, lesson, questions, i, total_attempts, result, out,
                 progress, saved, runs, records, input_text, verdict, calls,
                 lesson_data, keywords>>

SearchNext ==
  \/ \E lid \in DOMAIN SearchLessonData : SearchInLesson(lid)
  \/ SearchLessons

SearchSpec == SearchInit /\ [][SearchNext]_vars

(***************************************************************************)
(* ContinueSpec: start_lesson and continue_lesson, which runs the lesson.  *)
(***************************************************************************)
\* lesson names given to 'lesson' and 'continue': no prerequisite, one
\* prerequisite, two prerequisites, not in LESSONS
ContinueArgs ==
  {"intro-to-terminal", "file-permissions", "shell-scripting", "text-processing"}

\* progress files left by earlier sessions that completed lessons
ContinueFiles ==
  { <<>>,
    << complete_lesson(complete_lesson(complete_lesson(DefaultProgress,
         "intro-to-terminal"), "file-system-basics"), "basic-commands") >>,
    << complete_lesson(DefaultProgress, "process-management") >> }

\* tutor.continue_lesson(name) up to the first prompt of run_lesson, or to
\* its return when the lesson is unknown or a prerequisite is missing
ContinueLesson(name) ==
  /\ pc = "idle"
  /\ IF name \notin LessonIds
       THEN /\ out' = << Line("not found", 0, 0, name) >>
            /\ UNCHANGED <<pc, caller, lesson, questions, i, total_attempts,
                           result, progress, saved, runs>>
            /\ UNCHANGED callvars
     ELSE IF ~check_prerequisites(progress, name)
       THEN /\ out' = PrerequisiteReport(progress, name)
            /\ UNCHANGED <<pc, caller, lesson, questions, i, total_attempts,
                           result, progress, saved, runs>>
            /\ UNCHANGED callvars
     ELSE \E quiz_data \in LessonQuizData(name) : StartLesson(name, quiz_data)

ContinueNext ==
  \/ \E name \in ContinueArgs : StartLessonCmd(name)
  \/ \E name \in ContinueArgs : ContinueLesson(name)
  \/ SectionsQuit
  \/ SectionsDone
  \/ \E line \in Lines : Ready(line)
  \/ \E exc \in {"EOFError", "KeyboardInterrupt"} : LessonInterrupt(exc)
  \/ \E line \in Lines : Answer(line)
  \/ \E line \in Lines : Continue(line)
  \/ \E line \in Lines : Retry(line)
  \/ \E exc \in {"EOFError", "KeyboardInterrupt"} : Interrupt(exc)
  \/ AfterQuiz
  \/ FinishLesson

\* the tutor was built with LinuxTutor(): progress is what load_progress read
ContinueInit ==
  /\ pc = "idle"
  /\ caller = "none"
  /\ lesson = NoLesson
  /\ questions = <<>>
  /\ i = 0
  /\ total_attempts = 0
  /\ result = <<>>
  /\ out = <<>>
  /\ saved \in ContinueFiles
  /\ progress = load_progress(saved)
  /\ runs = 0
  /\ records = <<>>
  /\ input_text = <<>>
  /\ verdict = "none"
  /\ calls = <<>>
  /\ lesson_data = <<>>
  /\ keywords = <<>>
  /\ results = "none"

ContinueSpec == ContinueInit /\ [][ContinueNext]_vars

(***************************************************************************)
(* What a run has printed, read back from out.                             *)
(***************************************************************************)
CountLines(m) == Len(SelectSeq(out, LAMBDA l : l.msg = m))

\* the answer prompts shown: every prompt follows one "Question i of N" line
Presented == CountLines("Question")

\* the question on screen when line k of out was printed
RECURSIVE QuestionAt(_)
QuestionAt(k) ==
  IF k = 0 THEN 0
  ELSE IF out[k].msg = "Question" THEN out[k].n
  ELSE QuestionAt(k - 1)

\* the wrong answers given to question q
WrongAnswers(q) ==
  Cardinality({ k \in 1..Len(out) : out[k].msg = "Incorrect" /\ QuestionAt(k) = q })

AnsweredCorrectly(q) ==
  \E k \in 1..Len(out) : out[k].msg = "Correct" /\ QuestionAt(k) = q

AllAnsweredCorrectly == \A q \in 1..Len(questions) : AnsweredCorrectly(q)

\* the questions answered correctly so far
CorrectCount == Cardinality({ q \in 1..Len(questions) : AnsweredCorrectly(q) })

InterruptedRun == CountLines("Quiz interrupted") > 0

\* QuizRunner.run has returned and its result has not been dropped yet
RunReturned == pc \in {"returned", "lesson_returned"} /\ result # <<>>

RECURSIVE SumTo(_, _)
SumTo(f(_), n) == IF n = 0 THEN 0 ELSE f(n) + SumTo(f, n - 1)

(***************************************************************************)
(* Properties.                                                             *)
(***************************************************************************)
LastLine == out[Len(out)]

\* run_lesson of a lesson with a quiz has returned without a passed quiz:
\* the "Ready" prompt was declined, or the run returned completed = False
LessonNotPassed ==
  /\ pc = "lesson_returned"
  /\ lesson.quiz # <<>>
  /\ LastLine.msg \in {"come back later", "Quiz not completed"}

\* C1 as stated: during run_lesson of a lesson with a quiz, progress changes
\* only on the step that follows a run with completed = True, and after a
\* declined quiz or a run with completed = False the lesson is not in
\* completed_lessons.
C1_Original ==
  /\ [][ (caller = "run_lesson" /\ lesson.quiz # <<>>
          /\ (progress' # progress \/ saved' # saved))
         => (pc = "returned" /\ result[2] = TRUE) ]_vars
  /\ [](LessonNotPassed => ~InSeq(progress.completed_lessons, lesson.id))

\* C1, amended: during run_lesson of a lesson with a quiz, progress and the
\* progress file change only on the step that follows a run with
\* completed = True; on every other step of the call, a declined "Ready"
\* prompt and a run with completed = False included, they stay as they were
\* (so the lesson is in completed_lessons only if it already was).
C1_ProgressOnlyOnPass ==
  [][ (caller = "run_lesson" /\ lesson.quiz # <<>>
       /\ (progress' # progress \/ saved' # saved))
      => (pc = "returned" /\ result[2] = TRUE) ]_vars

C1_Witness ==
  /\ LessonNotPassed
  /\ result # <<>>
  /\ result[2] = FALSE
  /\ progress = DefaultProgress
  /\ saved = <<>>

\* C2: a run stopped by EOFError or KeyboardInterrupt at a prompt does not
\* raise; it has returned (total_attempts, False) with total_attempts the
\* number of answer prompts shown, the interrupted one included, and nothing
\* was presented after the interruption.
C2_InterruptReturnsAttempts ==
  InterruptedRun =>
    /\ RunReturned
    /\ result = <<Presented, FALSE>>
    /\ result[1] = total_attempts
    /\ \E k \in 1..Len(out) :
         /\ out[k].msg = "Quiz interrupted"
         /\ \A j \in (k + 1)..Len(out) : out[j].msg # "Question"

C2_Witness ==
  /\ pc = "returned"
  /\ InterruptedRun
  /\ result = <<1, FALSE>>
  /\ CountLines("Correct") = 0
  /\ CountLines("Incorrect") = 0

C4_DeclineEndsRun ==
  [][ (pc = "retry" /\ pc' # "answer" /\ ~InterruptedRun')
      => /\ pc' = "returned"
         /\ result' = <<Presented, FALSE>>
         /\ out' = out ]_vars

C4_Witness ==
  /\ pc = "returned"
  /\ ~InterruptedRun
  /\ LastLine.msg = "Explanation"
  /\ out[Len(out) - 1].msg = "Incorrect"
  /\ result = <<1, FALSE>>
  /\ Len(questions) = 2

\* C5: in a completed run total_attempts is the sum over the questions of
\* (wrong answers given to the question) + 1, so it is the number of
\* questions when no answer was wrong.
C5_AttemptsAreSum ==
  (RunReturned /\ result[2] = TRUE) =>
    LET PerQuestion(q) == WrongAnswers(q) + 1 IN
      /\ result[1] = SumTo(PerQuestion, Len(questions))
      /\ (CountLines("Incorrect") = 0 => result[1] = Len(questions))

C5_Witness ==
  /\ pc = "returned"
  /\ result[2] = TRUE
  /\ Len(questions) = 2
  /\ WrongAnswers(1) = 2
  /\ WrongAnswers(2) = 0
  /\ result[1] = 4

\* C6: at the retry prompt a reply that is '', 'y' or 'yes' after trimming
\* and lower-casing presents the same question again with total_attempts
\* one higher; every other reply ends the run with (total_attempts, False).
C6_RetryReply ==
  [][ \A line \in Lines :
        Retry(line) =>
          IF Lower(Strip(line)) \in { <<>>, <<"y">>, <<"y","e","s">> }
            THEN /\ pc' = "answer"
                 /\ i' = i
                 /\ total_attempts' = total_attempts + 1
                 /\ out' = Append(out, QuestionLine(i, Len(questions)))
            ELSE /\ pc' = "returned"
                 /\ result' = <<total_attempts, FALSE>> ]_vars

C6_Witness ==
  /\ pc = "answer"
  /\ Len(out) >= 4
  /\ out[Len(out) - 2].msg = "Incorrect"
  /\ LastLine = QuestionLine(i, Len(questions))
  /\ out[Len(out) - 3] = LastLine
  /\ total_attempts = 2

\* C7: Quiz([]) is built without error and QuizRunner.run on it returns
\* (0, True) in the step that calls it, before any prompt.
C7_EmptyQuiz ==
  [][ StartRun(<<>>) => (pc' = "returned" /\ result' = <<0, TRUE>>) ]_vars

C7_Witness ==
  /\ pc = "returned"
  /\ caller = "direct"
  /\ questions = <<>>
  /\ result = <<0, TRUE>>
  /\ Presented = 0

\* C8: a run that returns completed = True returns total_attempts >= the
\* number of questions.
C8_AttemptsAtLeastQuestions ==
  (RunReturned /\ result[2] = TRUE) => result[1] >= Len(questions)

C8_Witness ==
  /\ pc = "returned"
  /\ result[2] = TRUE
  /\ Len(questions) = 2
  /\ result[1] > Len(questions)

\* C9: when a run is stopped by end-of-input or an interrupt, the X of
\* "You answered X out of N questions" is the number of questions answered
\* correctly before the interruption, whichever prompt was interrupted.
C9_ReportedAnswered ==
  (RunReturned /\ InterruptedRun) =>
    \A k \in 1..Len(out) :
      out[k].msg = "You answered" => out[k].n = CorrectCount

\* C10: on a completed run the summary says "Perfect score" exactly when
\* total_attempts is the number of questions; otherwise it reports
\* total_attempts - number of questions, with "question" when that is 1
\* and "questions" when it is more.
C10_Summary ==
  (RunReturned /\ result[2] = TRUE) =>
    LET extra == result[1] - Len(questions) IN
      /\ (CountLines("Perfect score") = 1) <=> (extra = 0)
      /\ (CountLines("needed retries") = 1) <=> (extra # 0)
      /\ CountLines("Perfect score") + CountLines("needed retries") = 1
      /\ \A k \in 1..Len(out) :
           out[k].msg = "needed retries" =>
             /\ out[k].n = extra
             /\ (extra = 1 => out[k].plural = "")
             /\ (extra > 1 => out[k].plural = "s")

C10_Witness ==
  /\ pc = "returned"
  /\ result = <<3, TRUE>>
  /\ Len(questions) = 2
  /\ \E k \in 1..Len(out) :
       out[k] = Line("needed retries", 1, 3, "")

\* Quiz(records) returned a Quiz object (which may have been run since)
Constructed == pc \in {"built", "answer", "returned"}

\* no Quiz object exists: Quiz() was not called yet or it raised
NoQuiz == pc \in {"idle", "raised"} /\ questions = <<>> /\ out = <<>>

KnownType(data) ==
  HasKey(data, "type")
    /\ data["type"] \in {"multiple_choice", "true_false", "command_recall", "fill_blank"}

\* C11: a constructed Quiz holds exactly one question per record, in input
\* order and of the record's type; if some record's type tag is none of the
\* four kinds, construction raises and there is no Quiz, not even one of the
\* earlier valid records, and no run starts.
C11_AllOrNothing ==
  /\ Constructed =>
       /\ Len(questions) = Len(records)
       /\ \A k \in 1..Len(records) :
            /\ KnownType(records[k])
            /\ questions[k].kind = records[k]["type"]
            /\ questions[k].question_text = records[k]["question"]
            /\ questions[k].explanation = records[k]["explanation"]
  /\ (\E k \in 1..Len(records) : ~KnownType(records[k])) => NoQuiz

C11_Witness ==
  /\ pc = "raised"
  /\ Len(records) = 2
  /\ records[1] = McRecord
  /\ records[2] = BadRecord
  /\ questions = <<>>

\* the record lacks 'question' or 'explanation' or the field its type requires
LacksRequired(data) ==
  \/ ~HasKey(data, "question")
  \/ ~HasKey(data, "explanation")
  \/ data["type"] = "multiple_choice" /\ ~({"options", "correct"} \subseteq DOMAIN data)
  \/ data["type"] \in {"true_false", "command_recall", "fill_blank"}
       /\ ~HasKey(data, "answer")

\* C12: when a record of a known type lacks 'question', 'explanation' or
\* the field its type requires, construction raises before any prompt is
\* shown; a command_recall or fill_blank record without 'alternatives' is
\* built, with no alternatives.
C12_MissingFields ==
  /\ (\E k \in 1..Len(records) : KnownType(records[k]) /\ LacksRequired(records[k]))
       => NoQuiz
  /\ Constructed =>
       \A k \in 1..Len(records) :
         ~HasKey(records[k], "alternatives") /\ records[k]["type"] \in TextTypes
           => questions[k].alternatives = <<>>
  /\ (pc # "idle" /\ \A k \in 1..Len(records) :
         \E r \in WellFormedRecords :
           records[k] \in {r, Without(r, "alternatives")})
       => Constructed

C12_Witness ==
  /\ pc = "raised"
  /\ records = << Without(AltRecord, "alternatives"), Without(McRecord, "correct") >>
  /\ out = <<>>

\* C13: construction raises when a multiple_choice record's 'correct' is
\* not in [0, number of options), so every constructed multiple_choice
\* question has an input that validates as correct.
C13_CorrectInRange ==
  /\ (\E k \in 1..Len(records) :
         /\ KnownType(records[k])
         /\ records[k]["type"] = "multiple_choice"
         /\ ~LacksRequired(records[k])
         /\ records[k]["correct"] \notin 0..(Len(records[k]["options"]) - 1))
       => NoQuiz
  /\ Constructed =>
       \A k \in 1..Len(questions) :
         questions[k].kind = "multiple_choice" =>
           \E line \in Lines :
             /\ ~validate_raises(questions[k], line)
             /\ validate_answer(questions[k], line)

\* validate_answer was called on the one question, of kind k
Validated(k) == pc = "validated" /\ questions[1].kind \in k

\* the index a multiple-choice input stands for, -1 when it stands for none:
\* a..d in either case are 0..3, a string of the digits 0..9 is its value
ProposedIndex(s) ==
  LET t == Lower(Strip(s)) IN
    IF Len(t) = 1 /\ IndexOf(<<"a","b","c","d">>, t[1]) > 0
      THEN IndexOf(<<"a","b","c","d">>, t[1]) - 1
    ELSE IF t # <<>> /\ \A k \in 1..Len(t) : IndexOf(Digits, t[k]) > 0
      THEN ParseInt(t)
    ELSE -1

\* C14: MultipleChoice.validate_answer never raises, and returns True
\* exactly when the input stands for an index (a..d in either case for
\* 0..3, a digit string for its value) that is below the number of options
\* and equals the correct index; every other input returns False.
C14_MultipleChoice ==
  Validated({"multiple_choice"}) =>
    LET q == questions[1]
        idx == ProposedIndex(input_text)
    IN /\ verdict \in {"True", "False"}
       /\ (verdict = "True") <=>
            (idx >= 0 /\ idx < Len(q.options) /\ idx = q.correct_index)

\* C14 without "never raises": whenever the call returns, it returns True
\* exactly in the cases C14 names
C14_WhenItReturns ==
  (Validated({"multiple_choice"}) /\ verdict # "raised") =>
    LET q == questions[1]
        idx == ProposedIndex(input_text)
    IN (verdict = "True") <=>
         (idx >= 0 /\ idx < Len(q.options) /\ idx = q.correct_index)

\* C15: TrueFalse.validate_answer takes true, t, yes, y, 1 (trimmed, in any
\* case) as True and false, f, no, n, 0 as False and returns True exactly
\* when that boolean is the stored answer; every other input returns False
\* whatever the stored answer.
C15_TrueFalse ==
  Validated({"true_false"}) =>
    LET q == questions[1]
        t == Lower(Strip(input_text))
        SaysTrue == t \in { <<"t","r","u","e">>, <<"t">>, <<"y","e","s">>, <<"y">>, <<"1">> }
        SaysFalse == t \in { <<"f","a","l","s","e">>, <<"f">>, <<"n","o">>, <<"n">>, <<"0">> }
    IN /\ verdict \in {"True", "False"}
       /\ SaysTrue => ((verdict = "True") <=> (q.correct_answer = TRUE))
       /\ SaysFalse => ((verdict = "True") <=> (q.correct_answer = FALSE))
       /\ (~SaysTrue /\ ~SaysFalse) => verdict = "False"

C15_Witness ==
  /\ Validated({"true_false"})
  /\ input_text = <<" ", "Y", "E", "S", "\t">>
  /\ questions[1].correct_answer = TRUE
  /\ verdict = "True"

\* C16: TextAnswer.validate_answer, for command_recall and fill_blank
\* alike, returns True exactly when the input without its leading and
\* trailing whitespace, case unchanged, is the stored answer or one of the
\* alternatives.
C16_TextAnswer ==
  Validated({"command_recall", "fill_blank"}) =>
    LET q == questions[1]
        t == Strip(input_text)
    IN /\ verdict \in {"True", "False"}
       /\ (verdict = "True") <=>
            (t = q.correct_answer \/ \E k \in 1..Len(q.alternatives) : t = q.alternatives[k])

C16_Witness ==
  /\ Validated({"fill_blank"})
  /\ input_text = <<"\t", "l", "s", " ", "-", "l", "a", " ">>
  /\ questions[1].correct_answer = <<"l", "s">>
  /\ verdict = "True"

\* C18: when a lesson of LESSONS has a quiz and its run returned
\* completed = True, the step of run_lesson that follows returns with the
\* lesson id in completed_lessons, quizzes_completed one higher and
\* quiz_total_attempts higher by the run's total_attempts.
C18_PassedQuizRecorded ==
  [][ (pc = "returned" /\ caller = "run_lesson" /\ result[2] = TRUE
       /\ lesson.id # "None")
      => /\ pc' = "lesson_returned"
         /\ InSeq(progress'.completed_lessons, lesson.id)
         /\ Stat(progress', "quizzes_completed")
              = Stat(progress, "quizzes_completed") + 1
         /\ Stat(progress', "quiz_total_attempts")
              = Stat(progress, "quiz_total_attempts") + result[1] ]_vars

RECURSIVE SumSeq(_)
SumSeq(sq) == IF sq = <<>> THEN 0 ELSE Head(sq) + SumSeq(Tail(sq))

\* C19: after any sequence of calls of increment_quiz_stats that starts
\* from the default progress, quizzes_completed is the number of calls and
\* quiz_total_attempts the sum of the attempts passed.
C19_QuizStatsCount ==
  (pc \in {"loaded", "raised"} /\ saved = <<>>) =>
    /\ pc = "loaded"
    /\ Stat(progress, "quizzes_completed") = Len(calls)
    /\ Stat(progress, "quiz_total_attempts") = SumSeq(calls)

\* C20: what load_progress returns has quizzes_completed and
\* quiz_total_attempts in its stats: both 0 without a file, and added as 0
\* to a file that lacks them, every stored field staying as it was.
C20_LoadAddsQuizStats ==
  (pc = "loaded" /\ calls = <<>>) =>
    /\ {"quizzes_completed", "quiz_total_attempts"} \subseteq DOMAIN progress.stats
    /\ saved = <<>> =>
         /\ progress.stats["quizzes_completed"] = 0
         /\ progress.stats["quiz_total_attempts"] = 0
    /\ saved # <<>> =>
         LET file == saved[1] IN
           /\ progress.current_level = file.current_level
           /\ progress.completed_lessons = file.completed_lessons
           /\ \A k \in DOMAIN file.stats : progress.stats[k] = file.stats[k]
           /\ \A k \in {"quizzes_completed", "quiz_total_attempts"} \ DOMAIN file.stats :
                progress.stats[k] = 0

\* get_next_lesson has just returned a lesson id (not None)
Suggested == pc = "idle" /\ verdict \notin {"none", "None"}

\* C21: a lesson returned by get_next_lesson is not in completed_lessons
\* and, being a lesson of LESSONS, has every prerequisite in
\* completed_lessons.
C21_NextLessonStartable ==
  Suggested =>
    /\ ~InSeq(progress.completed_lessons, verdict)
    /\ verdict \in LessonIds =>
         \A k \in 1..Len(Prerequisites(verdict)) :
           InSeq(progress.completed_lessons, Prerequisites(verdict)[k])

\* C22: get_next_lesson returns None when every lesson of LESSONS at the
\* current level is in completed_lessons, and never returns a lesson that
\* is in completed_lessons.
C22_NoneWhenLevelDone ==
  (pc = "idle" /\ verdict # "none") =>
    /\ (\A l \in LessonIds :
          LessonLevel(l) = progress.current_level
            => InSeq(progress.completed_lessons, l))
         => verdict = "None"
    /\ verdict # "None" => ~InSeq(progress.completed_lessons, verdict)

\* C23: a lesson id returned by get_next_lesson is a key of LESSONS and
\* its level is progress.current_level.
C23_NextLessonInLessons ==
  Suggested =>
    /\ verdict \in LessonIds
    /\ LessonLevel(verdict) = progress.current_level

NoDuplicates(sq) == \A j, k \in 1..Len(sq) : sq[j] = sq[k] => j = k

\* C29: after any sequence of complete_lesson and mark_lesson_complete
\* calls from the default progress, completed_lessons has no duplicate and
\* lessons_completed is its length; completing a lesson that is already
\* completed only sets current_lesson to None.
C29_CompletedLessons ==
  /\ [](/\ NoDuplicates(progress.completed_lessons)
        /\ Stat(progress, "lessons_completed") = Len(progress.completed_lessons))
  /\ [][ \A name \in CompleteArgs :
           ((CompleteLesson(name) \/ MarkLessonComplete(name))
              /\ InSeq(progress.completed_lessons, name))
             => progress' = [progress EXCEPT !.current_lesson = "None"] ]_vars

C29_Witness ==
  /\ pc = "idle"
  /\ progress.completed_lessons = <<"basic-commands", "intro-to-terminal">>
  /\ Stat(progress, "lessons_completed") = 2
  /\ progress.current_lesson = "None"
  /\ saved = <<progress>>
  /\ out = << Line("Completed lesson", 0, 0, "") >>

LevelIndex(p) == IndexOf(valid_levels, p.current_level)

\* C30: current_level is always one of beginner, intermediate, advanced,
\* expert; set_level with another value changes neither progress nor the
\* file; suggest_level_up moves one step up the order on an affirmative
\* reply and changes nothing at expert or when the user declines.
C30_LevelStaysValid ==
  /\ [](progress.current_level \in {"beginner", "intermediate", "advanced", "expert"})
  /\ [][ \A level \in LevelArgs :
           (SetLevel(level)
              /\ level \notin {"beginner", "intermediate", "advanced", "expert"})
             => (progress' = progress /\ saved' = saved) ]_vars
  /\ [][ SuggestLevelUp =>
           /\ progress' = progress
           /\ progress.current_level = "expert" => pc' = "idle" ]_vars
  /\ [][ \A line \in Lines :
           LevelUpReply(line) =>
             IF Strip(Lower(line)) \in { <<>>, <<"y">>, <<"y","e","s">> }
               THEN LevelIndex(progress') = LevelIndex(progress) + 1
               ELSE progress' = progress /\ saved' = saved ]_vars

C30_Witness ==
  /\ pc = "idle"
  /\ progress.current_level = "intermediate"
  /\ Len(out) >= 2
  /\ out[1] = Line("Level set to", 0, 0, "intermediate")
  /\ out[2] = Line("Cannot start", 0, 0, "process-management")
  /\ saved = <<progress>>

\* every prerequisite of lid is in completed_lessons
PrerequisitesMet(lid) ==
  \A k \in 1..Len(Prerequisites(lid)) :
    InSeq(progress.completed_lessons, Prerequisites(lid)[k])

\* the lessons named by the "You need to complete" lines of a report
ReportedMissing(lines) ==
  { lines[k].plural : k \in { j \in 1..Len(lines) : lines[j].msg = "You need to complete" } }

\* the prerequisites of lid that are not in completed_lessons
MissingSet(lid) ==
  { Prerequisites(lid)[k] : k \in { j \in 1..Len(Prerequisites(lid)) :
      ~InSeq(progress.completed_lessons, Prerequisites(lid)[j]) } }

\* C24: check_prerequisites returns True exactly when every prerequisite
\* of the lesson is in completed_lessons, and its report names exactly the
\* missing ones; when it returns False, start_lesson neither sets
\* current_lesson nor saves, and continue_lesson does not run the lesson.
C24_Prerequisites ==
  /\ [](\A name \in LessonIds :
          check_prerequisites(progress, name) <=> PrerequisitesMet(name))
  /\ [][ \A name \in ContinueArgs \cap LessonIds :
           StartLessonCmd(name) =>
             IF PrerequisitesMet(name)
               THEN /\ progress'.current_lesson = name
                    /\ saved' = <<progress'>>
               ELSE /\ progress' = progress
                    /\ saved' = saved
                    /\ ReportedMissing(out') = MissingSet(name) ]_vars
  /\ [][ \A name \in ContinueArgs \cap LessonIds :
           ContinueLesson(name) =>
             IF PrerequisitesMet(name)
               THEN pc' = "sections" /\ lesson'.id = name
               ELSE /\ pc' = "idle"
                    /\ lesson' = NoLesson
                    /\ runs' = runs
                    /\ progress' = progress
                    /\ saved' = saved
                    /\ ReportedMissing(out') = MissingSet(name) ]_vars

\* shell-scripting was refused with process-management completed: only
\* text-processing is reported
C24_Witness ==
  /\ pc = "idle"
  /\ InSeq(progress.completed_lessons, "process-management")
  /\ progress.current_lesson = "None"
  /\ out = << Line("Cannot start", 0, 0, "shell-scripting"),
              Line("You need to complete", 0, 0, "text-processing"),
              Line("Start with", 0, 0, "text-processing") >>

\* C25: when run_lesson returns to continue_lesson, continue_lesson goes
\* on to show_post_lesson_options, which prints the "What would you like
\* to do next" menu.
C25_PostLessonOptions ==
  [][ (caller = "run_lesson" /\ pc = "lesson_returned") =>
        /\ pc' = "post_lesson_options"
        /\ \E k \in 1..Len(out') : out'[k].msg = "What would you like to do next" ]_vars

\* kw occurs in text as a substring
Occurs(kw, text) ==
  \E pos \in 0..Len(text) :
    /\ pos + Len(kw) <= Len(text)
    /\ SubSeq(text, pos + 1, pos + Len(kw)) = kw

\* every keyword occurs, whatever its case, in a searched text of the lesson
AllKeywordsOccur(ld) ==
  LET texts == [n \in 1..Len(SearchFields(ld)) |-> Lower(SearchFields(ld)[n].text)] IN
    \A k \in 1..Len(keywords) :
      \E n \in 1..Len(texts) : Occurs(Lower(keywords[k]), texts[n])

\* C26: _search_in_lesson returns a match exactly when every keyword of
\* the list occurs, case-insensitively as a substring, in a searched field
\* of the lesson, and search_lessons lists exactly those lessons.
C26_AndLogic ==
  /\ pc = "searched" => (results # <<>> <=> AllKeywordsOccur(lesson_data[1]))
  /\ pc = "listed" =>
       { results[r].lesson_id : r \in 1..Len(results) }
         = { lid \in DOMAIN SearchLessonData : AllKeywordsOccur(SearchLessonData[lid]) }

\* the positions of the "Question n of total" lines of out
QuestionLines == { k \in 1..Len(out) : out[k].msg = "Question" }

\* C27: QuizRunner.run presents the questions in order from question 1,
\* asks "Try again?" only right after an incorrect answer, presents
\* question k + 1 only after question k was answered correctly and the
\* continuation prompt was answered, never presents a question again after
\* a correct answer to it, and prints the explanation after every
\* validated answer.
C27_RunTransitions ==
  /\ [](/\ \A k \in QuestionLines :
             IF \A j \in QuestionLines : k <= j
               THEN out[k].n = 1
               ELSE out[k].n \in {QuestionAt(k - 1), QuestionAt(k - 1) + 1}
        /\ \A k \in QuestionLines : \A j \in 1..(k - 1) :
             out[j].msg = "Correct" => QuestionAt(j) < out[k].n
        /\ pc = "retry" =>
             /\ Len(out) >= 2
             /\ out[Len(out) - 1].msg = "Incorrect"
        /\ \A k \in 1..Len(out) :
             out[k].msg \in {"Correct", "Incorrect"} =>
               /\ k < Len(out)
               /\ out[k + 1] = Line("Explanation", 0, 0,
                                     questions[QuestionAt(k)].explanation))
  /\ [][ (pc' = "retry" /\ pc # "retry") =>
           /\ pc = "answer"
           /\ \E line \in Lines :
                /\ ~validate_raises(questions[i], Strip(line))
                /\ ~validate_answer(questions[i], Strip(line)) ]_vars
  /\ [][ (i >= 1 /\ i' # i /\ pc' # "idle") =>
           /\ pc = "continue"
           /\ i' = i + 1
           /\ out[Len(out) - 1].msg = "Correct"
           /\ QuestionAt(Len(out)) = i
           /\ out' = Append(out, QuestionLine(i + 1, Len(questions))) ]_vars

\* question 1 was answered wrongly, retried and answered correctly, and
\* question 2 is presented
C27_Witness ==
  /\ pc = "answer"
  /\ i = 2
  /\ Len(out) = 7
  /\ out[1] = QuestionLine(1, 2)
  /\ out[2].msg = "Incorrect"
  /\ out[3].msg = "Explanation"
  /\ out[4] = QuestionLine(1, 2)
  /\ out[5].msg = "Correct"
  /\ out[6] = out[3]
  /\ out[7] = QuestionLine(2, 2)

\* C28: QuizRunner.run, once it has begun, ends only by returning a
\* result: after end-of-input, after a declined retry and after the last
\* correct answer it has returned (total_attempts, completed), and no
\* input makes it end in another way.
C28_RunEndsWithResult ==
  (caller = "direct" /\ i >= 1 /\ pc \notin {"answer", "continue", "retry"}) =>
    /\ pc = "returned"
    /\ Len(result) = 2

====
